---- MODULE Spec2Model ----
(***************************************************************************)
(* Model of energypylinear/battery/battery.py: the Battery object, its     *)
(* optimize() call (model construction, solve, result projection) and the  *)
(* projection helpers calc_net / calc_cost / calc_gross.                   *)
(*                                                                         *)
(* Numbers.  Python floats are modelled by integers in a fixed-point unit: *)
(* one MW (or MWh) is Unit = 120 model units, so that the divisions the    *)
(* code performs (by the step factor 12, 2 or 1, and the multiplication by *)
(* 1 - efficiency with efficiency given in tenths) are exact.  Prices are  *)
(* integers in $/MWh.                                                      *)
(*                                                                         *)
(* The LP solver (pulp's prob.solve()) is modelled by what it returns: any *)
(* assignment of the problem's variables that satisfies every constraint   *)
(* and variable bound and minimises the objective, import and export being *)
(* searched on the grid of whole MW.                                       *)
(***************************************************************************)
EXTENDS Integers, Sequences, FiniteSets, TLC

\* Largest number of priced timesteps N in a call.
MaxN == 2

\* Model units per MW / MWh: 12 (largest step factor) times 10 (tenths of efficiency).
Unit == 12 * 10

\* Prices and forecasts drawn for a call [$/MWh].
PriceVals == {-1, 0, 2}
ForecastVals == {1}

\* Constructor arguments drawn for the Battery: power [MW], capacity [MWh],
\* efficiency in tenths (9 is the default 0.9).
Powers == {Unit, 2 * Unit}
Capacities == {2 * Unit}
Efficiencies == {9, 10}

\* The timestep keys a caller passes (the keys of steps; another key is a KeyError).
Timesteps == {"5min", "30min", "60min", "1hr"}

\* The smaller sets drawn when one Battery is called again and again.
SeqPriceVals == {-1, 2}
SeqForecastVals == {1}
SeqPowers == {Unit}
SeqCapacities == {2 * Unit}
SeqEfficiencies == {9}
SeqTimesteps == {"5min", "1hr"}

----------------------------------------------------------------------------
\* Optional numbers: Python's None, a float, or a raised exception.

None == [k |-> "None", v |-> 0]

Num(n) == [k |-> "num", v |-> n]

TypeError == [k |-> "TypeError", v |-> 0]

IsNum(x) == x.k = "num"

\* list(prices): a Python list of numbers from a sequence of integers.
ToList(s) == [j \in 1..Len(s) |-> Num(s[j])]

\* Python's 0-based lst[i].
At(lst, i) == lst[i + 1]

\* All sequences over S of length lo..hi.
SeqsOf(S, lo, hi) == UNION {[1..n -> S] : n \in lo..hi}

RECURSIVE SumSeq(_)
SumSeq(s) == IF s = <<>> THEN 0 ELSE Head(s) + SumSeq(Tail(s))

----------------------------------------------------------------------------
\* The step factors, battery.py lines 13-18: MWh = MW / step.

\* Variant: 5min taken as 5 steps per hour.
stepsWrong5min == ("5min" :> 5) @@ ("30min" :> 60 \div 30) @@ ("60min" :> 1) @@ ("1hr" :> 1)

steps == ("5min" :> 60 \div 5) @@ ("30min" :> 60 \div 30) @@ ("60min" :> 1) @@ ("1hr" :> 1)

----------------------------------------------------------------------------
\* Result projection helpers, battery.py lines 135-160

\* An LpVariable: its bounds and the value the solver gave it (None before a
\* solve, and for a variable that is in no constraint and not in the objective).
LpVariable(lo, up) == [exists |-> TRUE, lowBound |-> lo, upBound |-> up, varValue |-> None]

\* dict.get(row_id) on a missing key: Python's None in place of a variable.
NoVariable == [exists |-> FALSE, lowBound |-> 0, upBound |-> None, varValue |-> None]

DictGet(d, i) == IF i \in DOMAIN d THEN d[i] ELSE NoVariable

\* var_value.value(), or None when var_value is None (AttributeError).
get_value_or_nan(var_value) == IF var_value.exists THEN var_value.varValue ELSE None

\* `None in [imp, exp, loss]`, else imp - exp - loss.
calc_net(imp, exp, loss) ==
    IF None \in {imp, exp, loss} THEN None ELSE Num(imp.v - exp.v - loss.v)

\* None when energy is None; otherwise (energy * price) / step, which raises
\* TypeError when price is None.
calc_cost(energy, price, step) ==
    IF energy = None THEN None
    ELSE IF IsNum(price) THEN Num((energy.v * price.v) \div step)
    ELSE TypeError

\* imp - exp, or None when the subtraction raises TypeError.
calc_gross(imp, exp) ==
    IF IsNum(imp) /\ IsNum(exp) THEN Num(imp.v - exp.v) ELSE None

----------------------------------------------------------------------------
\* The Battery object (self) as a record of its attributes.

\* Attributes that do not exist before the first optimize().
NoProb == [exists |-> FALSE, objective |-> <<>>, constraints |-> {}, status |-> "unset"]

NoDict == [i \in {} |-> NoVariable]

NoVars == [imports |-> NoDict, exports |-> NoDict, charges |-> NoDict, losses |-> NoDict]

\* Battery.__init__, lines 29-32
Battery(p, c, e) ==
    [power |-> p, capacity |-> c, efficiency |-> e, prob |-> NoProb, vars |-> NoVars,
     timestep |-> "unset", step |-> 0, info |-> <<>>]

\* LpProblem('cost minimization', LpMinimize): no objective, no constraints.
LpProblem == [exists |-> TRUE, objective |-> <<>>, constraints |-> {}, status |-> "Not Solved"]

\* idx[:-1] of a range idx
AllButLast(idx) == {i \in idx : i + 1 \in idx}

\* Battery.setup_vars, lines 43-63
setup_vars(s, idx) ==
    [imports |-> [i \in AllButLast(idx) |-> LpVariable(0, Num(s.power))],
     exports |-> [i \in AllButLast(idx) |-> LpVariable(0, Num(s.power))],
     charges |-> [i \in idx |-> LpVariable(0, None)],
     losses  |-> [i \in idx |-> LpVariable(0, None)]]

\* One term coef * kind[i] of the objective.
Term(kind, i, coef) == [kind |-> kind, i |-> i, coef |-> coef]

\* One linear constraint of the problem; c is its constant.
\*   initial: charges[0] == c                                        (line 108)
\*   balance: charges[i+1] == charges[i]
\*                           + (imports[i] - exports[i] - losses[i]) / c   (line 114)
\*   max:     charges[i] <= c                                        (line 117)
\*   min:     charges[i] >= c                                        (line 118)
\*   loss:    losses[i] == exports[i] * (1 - c/10)                   (line 120)
Constraint(kind, i, c) == [kind |-> kind, i |-> i, c |-> c]

\* Variant: the first two assertions only.
AssertsHoldNoLower(s, forecasts, prices, initial_charge) ==
    /\ Len(forecasts) = Len(prices)
    /\ initial_charge <= s.capacity

\* The three assert statements, lines 87-89
AssertsHold(s, forecasts, prices, initial_charge) ==
    /\ Len(forecasts) = Len(prices)
    /\ initial_charge <= s.capacity
    /\ initial_charge >= 0

\* Variant: the problem of the previous call is kept.
NewProbKeep(s) == s.prob

\* self.prob = LpProblem(...), line 73
NewProb(s) == LpProblem

\* optimize, lines 73-89: the new problem, the extended price list, the step
\* factor, the default forecasts and the assertions.  ok is FALSE when an
\* assertion fails (AssertionError); the attributes set before it stay set.
optimize_enter(s, a) ==
    LET ps == Append(ToList(a.prices), None)
        fs == IF a.forecasts.given THEN ToList(a.forecasts.seq) ELSE ps
    IN [self |-> [s EXCEPT !.prob = NewProb(s),
                           !.timestep = a.timestep,
                           !.step = steps[a.timestep]],
        prices |-> ps,
        forecasts |-> fs,
        ok |-> AssertsHold(s, fs, ps, a.initial_charge)]

\* The constraints added in one pass of the loop, lines 112-120
StepConstraints(s, i) ==
    {Constraint("balance", i, s.step),
     Constraint("max", i, s.capacity),
     Constraint("min", i, 0),
     Constraint("loss", i, s.efficiency)}

\* optimize, lines 92-120: variables, objective, constraints.
optimize_build(s, ps, fs, initial_charge) ==
    LET idx == 0..(Len(ps) - 1)
        n   == Len(ps) - 1
        obj == [j \in 1..(2 * n) |->
                  IF j <= n THEN Term("imports", j - 1, At(fs, j - 1).v)
                  ELSE Term("exports", j - n - 1, 0 - At(fs, j - n - 1).v)]
        cons == {Constraint("initial", 0, initial_charge)}
                  \cup UNION {StepConstraints(s, i) : i \in AllButLast(idx)}
    IN [s EXCEPT !.vars = setup_vars(s, idx),
                 !.prob = [@ EXCEPT !.objective = obj,
                                    !.constraints = @ \cup cons]]

----------------------------------------------------------------------------
\* The solver behind self.prob.solve(), line 122

\* The value an assignment gives kind[i]; 0 for a variable it does not cover.
Val(a, kind, i) == IF i \in DOMAIN a[kind] THEN a[kind][i] ELSE 0

\* Does assignment a satisfy constraint c?
Sat(c, a) ==
    CASE c.kind = "initial" -> Val(a, "charges", c.i) = c.c
      [] c.kind = "balance" ->
            Val(a, "charges", c.i + 1) * c.c =
               Val(a, "charges", c.i) * c.c
                 + Val(a, "imports", c.i) - Val(a, "exports", c.i) - Val(a, "losses", c.i)
      [] c.kind = "max" -> Val(a, "charges", c.i) <= c.c
      [] c.kind = "min" -> Val(a, "charges", c.i) >= c.c
      [] c.kind = "loss" -> Val(a, "losses", c.i) * 10 = Val(a, "exports", c.i) * (10 - c.c)
      [] OTHER -> FALSE

\* The indices at which the problem (objective and constraints) uses kind.
ProblemIdx(prob, kind) ==
    {prob.objective[j].i : j \in {k \in DOMAIN prob.objective : prob.objective[k].kind = kind}}
    \cup {c.i : c \in {d \in prob.constraints :
                 \/ d.kind = "balance"
                 \/ d.kind = "loss" /\ kind \in {"exports", "losses"}
                 \/ d.kind \in {"initial", "max", "min"} /\ kind = "charges"}}
    \cup {c.i + 1 : c \in {d \in prob.constraints : d.kind = "balance" /\ kind = "charges"}}

\* Variable bounds (lowBound, upBound) of the variables the battery holds.
WithinBounds(s, a) ==
    \A kind \in {"imports", "exports", "charges", "losses"} :
      \A i \in DOMAIN a[kind] :
        LET var == DictGet(s.vars[kind], i)
        IN /\ a[kind][i] >= var.lowBound
           /\ IsNum(var.upBound) => a[kind][i] <= var.upBound.v

\* The whole-MW grid on which import and export are searched.
PowerGrid(s) == {k * Unit : k \in 0..(s.power \div Unit)}

\* Every assignment that satisfies all constraints and bounds.  A choice of
\* imports and exports fixes the rest (Derive): losses by the loss
\* equalities, charges by the initial and balance equalities; a variable no
\* equality fixes is put at its lower bound 0.
Feasible(s) ==
    LET prob == s.prob
        Eq(kind, i) == {c \in prob.constraints : c.kind = kind /\ c.i = i}
        One(S) == CHOOSE c \in S : TRUE
        I == ProblemIdx(prob, "imports")
        E == ProblemIdx(prob, "exports")
        L == ProblemIdx(prob, "losses")
        C == ProblemIdx(prob, "charges")
        top == IF C = {} THEN 0 ELSE CHOOSE m \in C : \A x \in C : x <= m
        eff == [i \in L |-> IF Eq("loss", i) = {} THEN 10 ELSE One(Eq("loss", i)).c]
        div == [i \in 0..(top - 1) |->
                  IF Eq("balance", i) = {} THEN 0 ELSE One(Eq("balance", i)).c]
        c0  == IF Eq("initial", 0) = {} THEN 0 ELSE One(Eq("initial", 0)).c
        Derive(imp, exp) ==
            LET ls == [i \in L |-> IF i \in E THEN (exp[i] * (10 - eff[i])) \div 10 ELSE 0]
                ch[i \in 0..top] ==
                    IF i = 0 THEN c0
                    ELSE IF div[i - 1] = 0 THEN 0
                    ELSE ch[i - 1] +
                           ((IF i - 1 \in I THEN imp[i - 1] ELSE 0)
                             - (IF i - 1 \in E THEN exp[i - 1] ELSE 0)
                             - (IF i - 1 \in L THEN ls[i - 1] ELSE 0)) \div div[i - 1]
            IN [imports |-> imp, exports |-> exp,
                charges |-> [i \in C |-> ch[i]], losses |-> ls]
    IN {a \in {Derive(imp, exp) : imp \in [I -> PowerGrid(s)], exp \in [E -> PowerGrid(s)]} :
          /\ \A c \in prob.constraints : Sat(c, a)
          /\ WithinBounds(s, a)}

\* The value of the objective, lines 102-105, at assignment a.
ObjectiveValue(prob, a) ==
    SumSeq([j \in DOMAIN prob.objective |->
              prob.objective[j].coef * Val(a, prob.objective[j].kind, prob.objective[j].i)])

\* The feasible assignments of F at which the objective is least.
Optimal(s, F) ==
    LET values == {ObjectiveValue(s.prob, a) : a \in F}
        least  == CHOOSE m \in values : \A v \in values : m <= v
    IN {a \in F : ObjectiveValue(s.prob, a) = least}

\* The battery after the solver stored status st and, when a is an
\* assignment, the values of the problem's variables.
Solved(s, st, a) ==
    [s EXCEPT !.prob.status = st,
              !.vars = [kind \in DOMAIN s.vars |->
                          [i \in DOMAIN s.vars[kind] |->
                             IF i \in DOMAIN a[kind]
                             THEN [s.vars[kind][i] EXCEPT !.varValue = Num(a[kind][i])]
                             ELSE s.vars[kind][i]]]]

NoValues == [imports |-> <<>>, exports |-> <<>>, charges |-> <<>>, losses |-> <<>>]

\* self.prob.solve(): the outcomes the solver can store on the battery: an
\* optimal assignment, or no values with a status that is not optimal
\* (infeasible when nothing satisfies the constraints; not solved when the
\* solver gave up).
solve(s) ==
    LET F == Feasible(s)
    IN IF F = {} THEN {Solved(s, "Infeasible", NoValues)}
       ELSE {Solved(s, "Optimal", a) : a \in Optimal(s, F)}
              \cup {Solved(s, "Not Solved", NoValues)}

----------------------------------------------------------------------------
\* Result projection, battery.py lines 162-198

\* out[key] = value on an OrderedDict kept as the sequence of its items: a
\* new key goes last, an old key keeps its place.
OrderedDictSet(out, key, value) ==
    IF \E j \in DOMAIN out : out[j].key = key
    THEN [j \in DOMAIN out |-> IF out[j].key = key THEN [out[j] EXCEPT !.value = value]
                               ELSE out[j]]
    ELSE Append(out, [key |-> key, value |-> value])

RECURSIVE OrderedDictOf(_)
OrderedDictOf(result) ==
    IF result = <<>> THEN <<>>
    ELSE LET last == result[Len(result)]
         IN OrderedDictSet(OrderedDictOf(SubSeq(result, 1, Len(result) - 1)),
                           last[1], last[2])

\* A field label: the format string and the value formatted into it.
Label(fmt, arg) == <<fmt, arg>>

\* The list `result` of one row, lines 178-189
Fields(s, imp, exp, gross, net, loss, chg, price, forecast, actual_costs, forecast_costs) ==
    << <<Label("Import [MW]", ""), imp>>,
       <<Label("Export [MW]", ""), exp>>,
       <<Label("Gross [MW]", ""), gross>>,
       <<Label("Net [MW]", ""), net>>,
       <<Label("Losses [MW]", ""), loss>>,
       <<Label("Charge [MWh]", ""), chg>>,
       <<Label("Prices [$/MWh]", ""), price>>,
       <<Label("Forecast [$/MWh]", ""), forecast>>,
       <<Label("Actual [$/{}]", s.timestep), actual_costs>>,
       <<Label("Forecast [$/{}]", s.timestep), forecast_costs>> >>

\* One pass of the loop, lines 166-196: the row, and whether a TypeError
\* was raised while computing it.
Row(s, ps, fs, row_id) ==
    LET imp  == get_value_or_nan(DictGet(s.vars.imports, row_id))
        exp  == get_value_or_nan(DictGet(s.vars.exports, row_id))
        loss == get_value_or_nan(DictGet(s.vars.losses, row_id))
        chg  == get_value_or_nan(DictGet(s.vars.charges, row_id))
        price    == At(ps, row_id)
        forecast == At(fs, row_id)
        net == calc_net(imp, exp, loss)
        actual_costs   == calc_cost(net, price, s.step)
        forecast_costs == calc_cost(net, forecast, s.step)
        gross == calc_gross(imp, exp)
    IN [raised |-> TypeError \in {actual_costs, forecast_costs},
        out |-> OrderedDictOf(Fields(s, imp, exp, gross, net, loss, chg, price, forecast,
                                     actual_costs, forecast_costs))]

\* Variant: the rows of idx[:-1] only.
RowIdsShort(idx_range) == [j \in 1..(Cardinality(idx_range) - 1) |-> j - 1]

\* `for row_id in idx_range`: the row ids in the order they are visited.
RowIds(idx_range) == [j \in 1..Cardinality(idx_range) |-> j - 1]

\* Battery.generate_outputs, lines 162-198: the list of rows; nothing is
\* returned when a row raised.
generate_outputs(s, ps, fs, idx_range) ==
    LET ids  == RowIds(idx_range)
        rows == [j \in DOMAIN ids |-> Row(s, ps, fs, ids[j])]
        raised == \E j \in DOMAIN rows : rows[j].raised
    IN [raised |-> raised,
        results |-> IF raised THEN <<>> ELSE [j \in DOMAIN rows |-> rows[j].out]]

----------------------------------------------------------------------------
\* State

VARIABLES
    power, capacity, efficiency,   \* Battery attributes set by __init__
    prob, vars, timestep, step,    \* Battery attributes set by optimize
    info,                          \* self.info, the rows of the last completed call
    pc,                            \* where the caller / the running optimize is
    args,                          \* the arguments of the running call
    prices, forecasts,             \* the locals prices and forecasts of optimize
    ret,                           \* what the last call returned or raised
    calc                           \* inputs and outputs of one projected row

vars_all == <<power, capacity, efficiency, prob, vars, timestep, step, info,
              pc, args, prices, forecasts, ret, calc>>

Self ==
    [power |-> power, capacity |-> capacity, efficiency |-> efficiency, prob |-> prob,
     vars |-> vars, timestep |-> timestep, step |-> step, info |-> info]

SetSelf(s) ==
    /\ power' = s.power
    /\ capacity' = s.capacity
    /\ efficiency' = s.efficiency
    /\ prob' = s.prob
    /\ vars' = s.vars
    /\ timestep' = s.timestep
    /\ step' = s.step
    /\ info' = s.info

NoArgs == [prices |-> <<>>, forecasts |-> [given |-> FALSE, seq |-> <<>>],
           initial_charge |-> 0, timestep |-> "unset"]

NoRet == [kind |-> "none", rows |-> <<>>]

\* No row is being projected on its own.
NoCalc == [phase |-> "off", imp |-> None, exp |-> None, loss |-> None, chg |-> None,
           price |-> None, forecast |-> None, raised |-> FALSE, row |-> <<>>]

\* The arguments drawn for the first call on a battery of capacity cap.
ArgSets(cap) ==
    [prices : SeqsOf(PriceVals, 1, MaxN),
     forecasts : {[given |-> FALSE, seq |-> <<>>]}
                   \cup {[given |-> TRUE, seq |-> f] : f \in SeqsOf(ForecastVals, 1, MaxN + 1)},
     initial_charge : {0 - Unit, 0, cap, cap + Unit},
     timestep : Timesteps]

\* The arguments drawn for each call of a sequence of calls.
SeqArgSets(cap) ==
    [prices : SeqsOf(SeqPriceVals, 1, MaxN),
     forecasts : {[given |-> FALSE, seq |-> <<>>]}
                   \cup {[given |-> TRUE, seq |-> f] : f \in SeqsOf(SeqForecastVals, MaxN + 1, MaxN + 1)},
     initial_charge : {0, cap + Unit},
     timestep : SeqTimesteps]

\* A Battery was constructed (lines 29-32); no call was made yet.
Constructed(P, C, E) ==
    /\ \E p \in P, c \in C, e \in E :
         LET s == Battery(p, c, e)
         IN /\ power = s.power
            /\ capacity = s.capacity
            /\ efficiency = s.efficiency
            /\ prob = s.prob
            /\ vars = s.vars
            /\ timestep = s.timestep
            /\ step = s.step
            /\ info = s.info
    /\ pc = "idle"
    /\ args = NoArgs
    /\ prices = <<>>
    /\ forecasts = <<>>
    /\ ret = NoRet
    /\ calc = NoCalc

Init == Constructed(SeqPowers, SeqCapacities, SeqEfficiencies)

InitFirst == Constructed(Powers, Capacities, Efficiencies)

----------------------------------------------------------------------------
\* Actions: one call of optimize is Optimize, Solve, GenerateOutputs and
\* Return, in this order; an exception ends it at Return.

\* optimize is called with arguments a and runs lines 73-120: up to the
\* assertions, and when they hold on to the end of model construction.
Optimize(a) ==
    /\ pc = "idle"
    /\ LET e == optimize_enter(Self, a)
       IN /\ args' = a
          /\ prices' = e.prices
          /\ forecasts' = e.forecasts
          /\ IF e.ok
             THEN /\ SetSelf(optimize_build(e.self, e.prices, e.forecasts, a.initial_charge))
                  /\ pc' = "solve"
                  /\ ret' = NoRet
             ELSE /\ SetSelf(e.self)
                  /\ pc' = "raised"
                  /\ ret' = [kind |-> "AssertionError", rows |-> <<>>]
    /\ UNCHANGED calc

\* lines 122-129
Solve ==
    /\ pc = "solve"
    /\ \E s \in solve(Self) : SetSelf(s)
    /\ pc' = "project"
    /\ UNCHANGED <<args, prices, forecasts, ret, calc>>

\* lines 131-133
GenerateOutputs ==
    /\ pc = "project"
    /\ LET g == generate_outputs(Self, prices, forecasts, 0..(Len(prices) - 1))
       IN IF g.raised
          THEN /\ pc' = "raised"
               /\ ret' = [kind |-> "TypeError", rows |-> <<>>]
               /\ info' = info
          ELSE /\ pc' = "done"
               /\ ret' = [kind |-> "rows", rows |-> g.results]
               /\ info' = g.results
    /\ UNCHANGED <<power, capacity, efficiency, prob, vars, timestep, step,
                   args, prices, forecasts, calc>>

\* The call's frame is gone: the caller holds what it returned or raised.
Return ==
    /\ pc \in {"done", "raised"}
    /\ pc' = "idle"
    /\ args' = NoArgs
    /\ prices' = <<>>
    /\ forecasts' = <<>>
    /\ UNCHANGED <<power, capacity, efficiency, prob, vars, timestep, step, info, ret, calc>>

\* Any sequence of calls on one Battery.
Next ==
    \/ \E a \in SeqArgSets(capacity) : Optimize(a)
    \/ Solve
    \/ GenerateOutputs
    \/ Return

Spec == Init /\ [][Next]_vars_all

\* The first call on a newly constructed Battery.
NextFirst ==
    \/ \E a \in ArgSets(capacity) : ~prob.exists /\ Optimize(a)
    \/ Solve
    \/ GenerateOutputs
    \/ Return

SpecFirst == InitFirst /\ [][NextFirst]_vars_all

----------------------------------------------------------------------------
\* The projection of one row on its own: generate_outputs over a single row
\* id, for every combination of known and unknown inputs.

OptPower == {None, Num(0), Num(Unit)}

OptLoss == {None, Num(0), Num(Unit \div 10)}

OptPrice == {None} \cup {Num(x) : x \in PriceVals}

\* A battery whose variables at row 0 hold the given values, after a call
\* with the given timestep.
RowBattery(s, c, ts) ==
    [s EXCEPT !.timestep = ts,
              !.step = steps[ts],
              !.vars = [imports |-> [i \in {0} |-> [LpVariable(0, Num(s.power)) EXCEPT !.varValue = c.imp]],
                        exports |-> [i \in {0} |-> [LpVariable(0, Num(s.power)) EXCEPT !.varValue = c.exp]],
                        charges |-> [i \in {0} |-> [LpVariable(0, None) EXCEPT !.varValue = c.chg]],
                        losses  |-> [i \in {0} |-> [LpVariable(0, None) EXCEPT !.varValue = c.loss]]]]

InitCalc ==
    /\ \E p \in Powers, c \in Capacities, e \in Efficiencies, ts \in Timesteps :
         LET s == Battery(p, c, e)
         IN /\ power = s.power
            /\ capacity = s.capacity
            /\ efficiency = s.efficiency
            /\ prob = s.prob
            /\ vars = s.vars
            /\ timestep = ts
            /\ step = steps[ts]
            /\ info = s.info
    /\ pc = "calc"
    /\ args = NoArgs
    /\ prices = <<>>
    /\ forecasts = <<>>
    /\ ret = NoRet
    /\ calc \in [phase : {"in"}, imp : OptPower, exp : OptPower, loss : OptLoss,
                 chg : {None}, price : OptPrice, forecast : OptPrice,
                 raised : {FALSE}, row : {<<>>}]

\* lines 165-196 for one row_id
ProjectRow ==
    /\ pc = "calc"
    /\ calc.phase = "in"
    /\ LET g == generate_outputs(RowBattery(Self, calc, timestep),
                                 <<calc.price>>, <<calc.forecast>>, {0})
       IN calc' = [calc EXCEPT !.phase = "out", !.raised = g.raised,
                               !.row = IF g.raised THEN <<>> ELSE g.results[1]]
    /\ UNCHANGED <<power, capacity, efficiency, prob, vars, timestep, step, info,
                   pc, args, prices, forecasts, ret>>

NextCalc == ProjectRow

SpecCalc == InitCalc /\ [][NextCalc]_vars_all

----------------------------------------------------------------------------
\* Properties.  N is the number of priced timesteps of the running call.

N == Len(args.prices)

\* The steps-per-hour the specification gives for each timestep.
StepFactor(ts) ==
    CASE ts = "5min" -> 12 [] ts = "30min" -> 2 [] ts = "60min" -> 1 [] ts = "1hr" -> 1
      [] OTHER -> 0

\* The solved value of variable kind[i].
Value(kind, i) == vars[kind][i].varValue.v

\* The forecast the call optimizes against at priced timestep i.
ForecastAt(i) ==
    IF args.forecasts.given THEN args.forecasts.seq[i + 1] ELSE args.prices[i + 1]

\* The value of the field labelled fmt of a row.
Field(row, fmt) ==
    LET j == CHOOSE k \in DOMAIN row : row[k].key[1] = fmt
    IN row[j].value

Solving == pc \in {"solve", "project", "done"}

OptimalSolve == pc \in {"project", "done"} /\ prob.status = "Optimal"

InitialChargeValid == args.initial_charge >= 0 /\ args.initial_charge <= capacity

\* C1: after every optimal solve, every charge variable, the terminal one at
\* index N included, holds a value in [0, capacity].
C1_ChargeWithinCapacity ==
    OptimalSolve =>
      \A i \in DOMAIN vars.charges :
        /\ IsNum(vars.charges[i].varValue)
        /\ 0 <= Value("charges", i)
        /\ Value("charges", i) <= capacity

\* C2: after every optimal solve, for every i in 0..N-1,
\* charges[i+1] = charges[i] + (imports[i] - exports[i] - losses[i]) / step_factor,
\* with step_factor 12, 2, 1, 1 for 5min, 30min, 60min, 1hr (stated times step_factor).
C2_Balance ==
    OptimalSolve =>
      \A i \in 0..(N - 1) :
        Value("charges", i + 1) * StepFactor(args.timestep) =
          Value("charges", i) * StepFactor(args.timestep)
            + Value("imports", i) - Value("exports", i) - Value("losses", i)

\* C2 witness: an optimal 5min solve over two timesteps that both imports and
\* exports, with a loss on the export.
C2_Witness ==
    /\ pc = "done"
    /\ prob.status = "Optimal"
    /\ args.timestep = "5min"
    /\ N = 2
    /\ \E i \in 0..1 : Value("imports", i) > 0
    /\ \E i \in 0..1 : Value("exports", i) > 0 /\ Value("losses", i) > 0

\* C3: with a valid initial charge, a call is accepted exactly when forecasts
\* is absent or as long as prices; any other length is rejected with an error
\* before any solve and leaves no rows.
C3_ForecastLength ==
    (pc # "idle" /\ InitialChargeValid) =>
      LET fits == ~args.forecasts.given \/ Len(args.forecasts.seq) = N
      IN /\ fits => Solving
         /\ ~fits => pc = "raised" /\ ret.kind = "AssertionError" /\ info = <<>>

\* C4: in the projection of a row, Net is unknown whenever import, export or
\* loss is unknown, Gross whenever import or export is unknown, each cost
\* whenever Net or its price is unknown; nothing is raised.
C4_UnknownPropagates ==
    calc.phase = "out" =>
      /\ ~calc.raised
      /\ None \in {calc.imp, calc.exp, calc.loss} => Field(calc.row, "Net [MW]") = None
      /\ None \in {calc.imp, calc.exp} => Field(calc.row, "Gross [MW]") = None
      /\ (None \in {calc.imp, calc.exp, calc.loss, calc.price})
            => Field(calc.row, "Actual [$/{}]") = None
      /\ (None \in {calc.imp, calc.exp, calc.loss, calc.forecast})
            => Field(calc.row, "Forecast [$/{}]") = None

\* C5: a call whose initial_charge is below 0 or above capacity fails before
\* model construction: on a new Battery no problem object, variable or row is
\* stored, and nothing was solved.
C5_NothingStoredOnBadCharge ==
    (pc = "raised" /\ ~InitialChargeValid) =>
      /\ ret.kind = "AssertionError"
      /\ ~prob.exists
      /\ vars = NoVars
      /\ info = <<>>

\* C6: every valid call, whatever the solver's outcome, returns N+1 rows, row k
\* for timestep k, each with the ten fields in the fixed order; a variable
\* without a value is unknown in its row and the report is never aborted.
Labels ==
    <<"Import [MW]", "Export [MW]", "Gross [MW]", "Net [MW]", "Losses [MW]",
      "Charge [MWh]", "Prices [$/MWh]", "Forecast [$/MWh]", "Actual [$/{}]",
      "Forecast [$/{}]">>

C6_ReportComplete ==
    /\ ret.kind # "TypeError"
    /\ pc = "done" =>
         /\ ret.kind = "rows"
         /\ ret.rows = info
         /\ Len(info) = N + 1
         /\ \A k \in 0..N :
              LET row == info[k + 1]
              IN /\ Len(row) = 10
                 /\ \A j \in 1..10 : row[j].key[1] = Labels[j]
                 /\ row[7].value = (IF k < N THEN Num(args.prices[k + 1]) ELSE None)
                 /\ row[6].value = vars.charges[k].varValue
                 /\ row[1].value = (IF k < N THEN vars.imports[k].varValue ELSE None)
                 /\ row[2].value = (IF k < N THEN vars.exports[k].varValue ELSE None)
                 /\ prob.status # "Optimal" => \A j \in {1, 2, 3, 4, 5, 6, 9, 10} : row[j].value = None

\* C6 witness: a call over two timesteps the solver did not solve returned
\* its three rows.
C6_Witness ==
    /\ pc = "done"
    /\ prob.status = "Not Solved"
    /\ N = 2
    /\ Len(ret.rows) = 3

\* C7: import, export and loss variables exist exactly at 0..N-1 and charge
\* variables exactly at 0..N, so row N has only Charge known.
C7_VariableLayout ==
    Solving =>
      /\ DOMAIN vars.imports = 0..(N - 1)
      /\ DOMAIN vars.exports = 0..(N - 1)
      /\ DOMAIN vars.losses = 0..(N - 1)
      /\ DOMAIN vars.charges = 0..N
      /\ (pc = "done" /\ prob.status = "Optimal") =>
           /\ \A j \in {1, 2, 3, 4, 5, 9, 10} : info[N + 1][j].value = None
           /\ info[N + 1][6].value = vars.charges[N].varValue
           /\ IsNum(info[N + 1][6].value)

\* The schedule that does nothing.
DoNothing ==
    [imports |-> [i \in 0..(N - 1) |-> 0],
     exports |-> [i \in 0..(N - 1) |-> 0],
     charges |-> [i \in 0..N |-> args.initial_charge],
     losses  |-> [i \in 0..(N - 1) |-> 0]]

\* The objective at the solved values: sum of (imports[i] - exports[i]) * forecasts[i].
SolvedObjective ==
    SumSeq([j \in 1..N |-> (Value("imports", j - 1) - Value("exports", j - 1)) * ForecastAt(j - 1)])

\* C8: for every call that reaches the solver the do-nothing schedule satisfies
\* every constraint and bound of the model, the solver never reports it
\* infeasible, and the objective of every optimal solution is <= 0.
C8_DoNothingFeasible ==
    /\ pc = "solve" =>
         /\ \A c \in prob.constraints : Sat(c, DoNothing)
         /\ WithinBounds(Self, DoNothing)
    /\ pc \in {"project", "done"} => prob.status # "Infeasible"
    /\ OptimalSolve => SolvedObjective <= 0

\* C8 witness: an optimal solve that earns money.
C8_Witness ==
    /\ pc = "done"
    /\ prob.status = "Optimal"
    /\ SolvedObjective < 0

\* What a call with arguments a returns or raises on a newly constructed
\* Battery(p, c, e).
FreshReturns(p, c, e, a) ==
    LET en == optimize_enter(Battery(p, c, e), a)
    IN IF ~en.ok THEN {[kind |-> "AssertionError", rows |-> <<>>]}
       ELSE {LET g == generate_outputs(s, en.prices, en.forecasts, 0..(Len(en.prices) - 1))
             IN IF g.raised THEN [kind |-> "TypeError", rows |-> <<>>]
                ELSE [kind |-> "rows", rows |-> g.results] :
               s \in solve(optimize_build(en.self, en.prices, en.forecasts, a.initial_charge))}

\* What the call that is about to solve can return.
PendingReturns ==
    {LET g == generate_outputs(s, prices, forecasts, 0..(Len(prices) - 1))
     IN IF g.raised THEN [kind |-> "TypeError", rows |-> <<>>]
        ELSE [kind |-> "rows", rows |-> g.results] : s \in solve(Self)}

\* C9: in any sequence of calls, no step changes power, capacity or
\* efficiency, and what a call returns or raises, and can return, is what the
\* same call returns or raises, and can return, on a new Battery.
C9_NoLeak ==
    [][/\ power' = power /\ capacity' = capacity /\ efficiency' = efficiency
       /\ pc' \in {"done", "raised"} => ret' \in FreshReturns(power', capacity', efficiency', args')
       /\ pc' = "done" => info' = ret'.rows
       /\ pc = "solve" => PendingReturns = FreshReturns(power, capacity, efficiency, args)
      ]_vars_all

\* C9 witness: a later call, of another length and timestep than the call
\* whose rows the Battery still holds, has been solved to optimality.
C9_Witness ==
    /\ pc = "project"
    /\ prob.status = "Optimal"
    /\ info # <<>>
    /\ Len(info) # Len(prices)
    /\ info[1][9].key[2] # timestep

\* C10: after an optimal solve the Forecast-cost fields of rows 0..N-1 add up
\* to the minimized objective divided by the step factor.
C10_ReportedCostIsObjective ==
    (pc = "done" /\ prob.status = "Optimal") =>
      SumSeq([j \in 1..N |-> info[j][10].value.v]) * StepFactor(args.timestep)
        = SolvedObjective

====
